---- MODULE Spec2Model ----
(***************************************************************************)
(* Model of the comlab_app server: the persistence store (Organization,    *)
(* Ticket and Vote collections) and the route handlers that read and write *)
(* it.  Every handler is a process occupying one request slot; it takes    *)
(* one step per awaited store or inference call, so that requests          *)
(* interleave exactly at the points where the code awaits.                 *)
(* The organization detail page of the client, with its vote buttons, is   *)
(* modelled next to it.                                                    *)
(***************************************************************************)
EXTENDS Integers, Sequences, FiniteSets, TLC

VARIABLES orgs, tickets, votes, reqs, left, overlapped, page

vars == <<orgs, tickets, votes, reqs, left, overlapped, page>>

(***************************************************************************)
(* Bounds of the model.                                                    *)
(***************************************************************************)
\* requests in flight at once
MaxConc == 2
\* requests arriving in one behaviour of the vote ledger, or of organization
\* creation
MaxRequests == 4
\* requests arriving in one behaviour of the whole server
MaxServerRequests == 3
\* tickets ever created
MaxTickets == 1
\* organizations ever created
MaxOrgs == 2

(***************************************************************************)
(* Callers and identifiers.                                                *)
(***************************************************************************)
Users == {"u1", "u2"}
\* session?.user?.id is missing
Anon == "anon"
Callers == Users \cup {Anon}

\* a string that mongoose.Types.ObjectId.isValid rejects
InvalidId == -1
\* no organizationId is given (query string, request body)
MissingId == -2
\* a well-formed ObjectId that names no document
PhantomId == 0

Slots == 1..MaxConc

\* ObjectIds of Vote rows: a fresh one is always available
VoteIds == 1..(Cardinality(Users) * MaxTickets + MaxConc)

(***************************************************************************)
(* Enumerations of the Ticket schema.                                      *)
(***************************************************************************)
Priorities == {"none", "low", "medium", "high"}
Statuses == {"open", "in-progress", "closed"}
Tags == {"bug", "tweak", "feature"}

\* a key missing from a request body, or an unset optional field
Absent == "absent"


(***************************************************************************)
(* The store.                                                              *)
(***************************************************************************)
\* a deleted ticket: its _id is never used again
Tombstone ==
    [exists |-> FALSE, reportedBy |-> Anon, organizationId |-> PhantomId,
     title |-> Absent, votes |-> 0, priority |-> "none", status |-> "open",
     tag |-> "bug", lastTriagedAt |-> Absent, triageStatus |-> Absent]

TicketIds == 1..Len(tickets)
OrgIds == 1..Len(orgs)

\* Ticket.findById(t) returns a document
TicketExists_FindsDeleted(t) == t \in TicketIds
TicketExists(t) == t \in TicketIds /\ tickets[t].exists

\* ids a client can put in a URL or body
TicketRefs == TicketIds \cup {PhantomId, InvalidId}
OrgRefs == OrgIds \cup {PhantomId, InvalidId}

VotesOf(t) == {v \in votes : v.ticketId = t}

\* the filter { _id, reportedBy: session.user.id } of Ticket.findOneAndUpdate
\* and Ticket.findOneAndDelete
MatchesReporter_AnyCaller(t, u) == TicketExists(t)
MatchesReporter(t, u) == TicketExists(t) /\ tickets[t].reportedBy = u

\* Vote.findOne({ userId, ticketId }): the _id of the row, or 0
VoteFindOne_NeverFinds(u, t) == 0
VoteFindOne(u, t) ==
    IF \E v \in votes : v.userId = u /\ v.ticketId = t
    THEN (CHOOSE v \in votes : v.userId = u /\ v.ticketId = t).id
    ELSE 0

\* the unique compound index { userId: 1, ticketId: 1 }
VoteIndexRejects_NoIndex(u, t) == FALSE
VoteIndexRejects(u, t) == \E v \in votes : v.userId = u /\ v.ticketId = t

\* Ticket.findByIdAndUpdate(id, { $inc: { votes: d } }): a relative update,
\* applied by the store to the current value; update validators do not run,
\* so the schema's min: 0 is not enforced here.  cached is the value the
\* handler read at Ticket.findById, which the update does not use.
IncVotes_WriteBack(cur, d, cached) == cached + d
IncVotes(cur, d, cached) == cur + d

TicketInc(t, d, cached) ==
    IF TicketExists(t)
    THEN [tickets EXCEPT ![t].votes = IncVotes(tickets[t].votes, d, cached)]
    ELSE tickets

(***************************************************************************)
(* Request slots.                                                          *)
(***************************************************************************)
NoBody ==
    [title |-> Absent, priority |-> Absent, status |-> Absent, tag |-> Absent,
     reportedBy |-> Absent, organizationId |-> MissingId]

\* no inference answer received (yet)
NoAnswer == [kind |-> Absent, priority |-> Absent, type |-> Absent]

Idle ==
    [kind |-> "idle", pc |-> "idle", user |-> Anon, id |-> PhantomId,
     body |-> NoBody, existingVote |-> 0, ticketVotes |-> 0,
     organizationId |-> PhantomId, ticketStatus |-> Absent,
     ticketIdSet |-> {}, bulkOps |-> <<>>, name |-> <<>>, ownedAtStart |-> FALSE,
     answer |-> NoAnswer, answerIds |-> {}, updatedCount |-> 0, sort |-> Absent,
     list |-> <<>>, limit |-> <<>>,
     status |-> 0, voted |-> FALSE, votes |-> 0]

\* a handler returns NextResponse.json(..., { status })
Respond(r, code) == [reqs[r] EXCEPT !.pc = "done", !.status = code]

\* a new request takes the first free slot (the slots are interchangeable)
CanStart(r) ==
    /\ reqs[r].kind = "idle"
    /\ \A q \in Slots : q < r => reqs[q].kind # "idle"
    /\ left > 0

Begin(r, kind, u, id, pc) ==
    [Idle EXCEPT !.kind = kind, !.user = u, !.id = id, !.pc = pc]

\* the organization detail page in the browser: no page is open
NoPage ==
    [status |-> Absent, route |-> Absent, votingTickets |-> {},
     rendered |-> {}, fetches |-> <<>>, error |-> FALSE]

Init ==
    /\ orgs = <<>>
    /\ tickets = <<>>
    /\ votes = {}
    /\ reqs = [r \in Slots |-> Idle]
    /\ left = MaxRequests
    /\ overlapped = FALSE
    /\ page = NoPage

\* the response has been sent; the slot is free again
Release(r) ==
    /\ reqs[r].pc = "done"
    /\ reqs' = [reqs EXCEPT ![r] = Idle]
    /\ UNCHANGED <<orgs, tickets, votes, left, overlapped, page>>

(***************************************************************************)
(* POST /api/tickets/[id]/vote                                             *)
(***************************************************************************)
\* another slot holds an unfinished toggle of the same user on the same ticket
VoteInFlight(r, u, t) ==
    \E q \in Slots \ {r} :
        /\ reqs[q].kind = "vote" /\ reqs[q].pc # "done"
        /\ reqs[q].user = u /\ reqs[q].id = t

VoteStart(r, u, t) ==
    /\ CanStart(r)
    /\ left' = left - 1
    /\ reqs' = [reqs EXCEPT ![r] =
                  IF u = Anon THEN [Begin(r, "vote", u, t, "done") EXCEPT !.status = 401]
                  ELSE IF t = InvalidId
                       THEN [Begin(r, "vote", u, t, "done") EXCEPT !.status = 400]
                       ELSE Begin(r, "vote", u, t, "findTicket")]
    /\ overlapped' = (overlapped \/ (u # Anon /\ t # InvalidId /\ VoteInFlight(r, u, t)))
    /\ UNCHANGED <<orgs, tickets, votes, page>>

\* const ticket = await Ticket.findById(ticketObjectId)
VoteFindTicket(r) ==
    /\ reqs[r].kind = "vote" /\ reqs[r].pc = "findTicket"
    /\ reqs' = [reqs EXCEPT ![r] =
                  IF TicketExists(reqs[r].id)
                  THEN [reqs[r] EXCEPT !.pc = "findVote",
                                       !.ticketVotes = tickets[reqs[r].id].votes]
                  ELSE Respond(r, 404)]
    /\ UNCHANGED <<orgs, tickets, votes, left, overlapped, page>>

\* const existingVote = await Vote.findOne({ userId, ticketId })
VoteFindVote(r) ==
    /\ reqs[r].kind = "vote" /\ reqs[r].pc = "findVote"
    /\ LET e == VoteFindOne(reqs[r].user, reqs[r].id)
       IN reqs' = [reqs EXCEPT ![r] =
                     [reqs[r] EXCEPT !.existingVote = e,
                                     !.pc = IF e # 0 THEN "deleteVote" ELSE "createVote"]]
    /\ UNCHANGED <<orgs, tickets, votes, left, overlapped, page>>

\* await Vote.deleteOne({ _id: existingVote._id })
VoteDeleteOne(r) ==
    /\ reqs[r].kind = "vote" /\ reqs[r].pc = "deleteVote"
    /\ votes' = {v \in votes : v.id # reqs[r].existingVote}
    /\ reqs' = [reqs EXCEPT ![r].pc = "decVotes"]
    /\ UNCHANGED <<orgs, tickets, left, overlapped, page>>

\* await Ticket.findByIdAndUpdate(ticketObjectId, { $inc: { votes: -1 } })
VoteDec(r) ==
    /\ reqs[r].kind = "vote" /\ reqs[r].pc = "decVotes"
    /\ tickets' = TicketInc(reqs[r].id, -1, reqs[r].ticketVotes)
    /\ reqs' = [reqs EXCEPT ![r].pc = "readUnvoted"]
    /\ UNCHANGED <<orgs, votes, left, overlapped, page>>

\* an _id no row carries and no handler still holds
FreshVoteId ==
    CHOOSE i \in VoteIds :
        /\ \A v \in votes : v.id # i
        /\ \A q \in Slots : reqs[q].existingVote # i
        /\ \A j \in VoteIds :
              ((\A v \in votes : v.id # j) /\ (\A q \in Slots : reqs[q].existingVote # j))
                  => i <= j

\* await Vote.create({ userId, ticketId }): a duplicate key error is thrown
\* to the handler's catch block, which answers 500
VoteCreate(r) ==
    /\ reqs[r].kind = "vote" /\ reqs[r].pc = "createVote"
    /\ IF VoteIndexRejects(reqs[r].user, reqs[r].id)
       THEN /\ reqs' = [reqs EXCEPT ![r] = Respond(r, 500)]
            /\ votes' = votes
       ELSE /\ votes' = votes \cup {[id |-> FreshVoteId, userId |-> reqs[r].user,
                                     ticketId |-> reqs[r].id]}
            /\ reqs' = [reqs EXCEPT ![r].pc = "incVotes"]
    /\ UNCHANGED <<orgs, tickets, left, overlapped, page>>

\* await Ticket.findByIdAndUpdate(ticketObjectId, { $inc: { votes: 1 } })
VoteInc(r) ==
    /\ reqs[r].kind = "vote" /\ reqs[r].pc = "incVotes"
    /\ tickets' = TicketInc(reqs[r].id, 1, reqs[r].ticketVotes)
    /\ reqs' = [reqs EXCEPT ![r].pc = "readVoted"]
    /\ UNCHANGED <<orgs, votes, left, overlapped, page>>

\* updatedTicket?.votes || 0, read again after the update; cached is
\* ticket.votes of the document loaded at the start, which is not returned
UpdatedVotes_Stale(t, cached) == cached
UpdatedVotes(t, cached) == IF TicketExists(t) THEN tickets[t].votes ELSE 0

\* const updatedTicket = await Ticket.findById(ticketObjectId);
\* return { voted, votes: updatedTicket?.votes || 0 }
VoteReadBack(r) ==
    /\ reqs[r].kind = "vote" /\ reqs[r].pc \in {"readUnvoted", "readVoted"}
    /\ reqs' = [reqs EXCEPT ![r] =
                  [reqs[r] EXCEPT !.pc = "done", !.status = 200,
                                  !.voted = (reqs[r].pc = "readVoted"),
                                  !.votes = UpdatedVotes(reqs[r].id,
                                                         reqs[r].ticketVotes)]]
    /\ UNCHANGED <<orgs, tickets, votes, left, overlapped, page>>

(***************************************************************************)
(* POST /api/tickets                                                       *)
(***************************************************************************)
\* Ticket.create({ ...result.data, reportedBy, organizationId, status: "open",
\* votes: 0 }): the one store call of the handler.  The organization id is
\* only checked for its format.
TicketCreate(r, u, o, title, priority, tag) ==
    /\ CanStart(r)
    /\ left' = left - 1
    /\ IF u = Anon
       THEN /\ reqs' = [reqs EXCEPT ![r] =
                          [Begin(r, "ticketCreate", u, o, "done") EXCEPT !.status = 401]]
            /\ tickets' = tickets
       ELSE IF o = InvalidId
       THEN /\ reqs' = [reqs EXCEPT ![r] =
                          [Begin(r, "ticketCreate", u, o, "done") EXCEPT !.status = 400]]
            /\ tickets' = tickets
       ELSE /\ Len(tickets) < MaxTickets
            /\ tickets' = Append(tickets,
                  [exists |-> TRUE, reportedBy |-> u, organizationId |-> o,
                   title |-> title, votes |-> 0, priority |-> priority,
                   status |-> "open", tag |-> tag,
                   lastTriagedAt |-> Absent, triageStatus |-> Absent])
            /\ reqs' = [reqs EXCEPT ![r] =
                          [Begin(r, "ticketCreate", u, o, "done") EXCEPT !.status = 201]]
    /\ UNCHANGED <<orgs, votes, overlapped, page>>

(***************************************************************************)
(* DELETE /api/tickets/[id]                                                *)
(***************************************************************************)
\* Ticket.findOneAndDelete({ _id, reportedBy: session.user.id }): the one
\* store call of the handler.  The Vote rows of the ticket are not touched.
TicketDelete(r, u, t) ==
    /\ CanStart(r)
    /\ left' = left - 1
    /\ IF u = Anon
       THEN /\ reqs' = [reqs EXCEPT ![r] =
                          [Begin(r, "ticketDelete", u, t, "done") EXCEPT !.status = 401]]
            /\ tickets' = tickets
       ELSE IF t = InvalidId
       THEN /\ reqs' = [reqs EXCEPT ![r] =
                          [Begin(r, "ticketDelete", u, t, "done") EXCEPT !.status = 400]]
            /\ tickets' = tickets
       ELSE IF MatchesReporter(t, u)
       THEN /\ tickets' = [tickets EXCEPT ![t] = Tombstone]
            /\ reqs' = [reqs EXCEPT ![r] =
                          [Begin(r, "ticketDelete", u, t, "done") EXCEPT !.status = 200]]
       ELSE /\ reqs' = [reqs EXCEPT ![r] =
                          [Begin(r, "ticketDelete", u, t, "done") EXCEPT !.status = 404]]
            /\ tickets' = tickets
    /\ UNCHANGED <<orgs, votes, overlapped, page>>

(***************************************************************************)
(* Strings: an organization name is a sequence of characters.              *)
(***************************************************************************)
\* String.prototype.toLowerCase, on the characters the model uses
LowerChar(c) ==
    CASE c = "A" -> "a"
      [] c = "B" -> "b"
      [] OTHER -> c

ToLowerCase(str) == [i \in 1..Len(str) |-> LowerChar(str[i])]

\* the schema's trim: true setter (String.prototype.trim)
RECURSIVE TrimStart(_)
TrimStart(str) ==
    IF str # <<>> /\ Head(str) = " " THEN TrimStart(Tail(str)) ELSE str

RECURSIVE TrimEnd(_)
TrimEnd(str) ==
    IF str # <<>> /\ str[Len(str)] = " "
    THEN TrimEnd(SubSeq(str, 1, Len(str) - 1))
    ELSE str

Trim(str) == TrimEnd(TrimStart(str))

\* names the requests of the model carry; <<>> fails z.string().min(1)
OrgNames == {<<>>, <<"A", "b">>, <<" ", "B">>}

(***************************************************************************)
(* POST /api/orgs                                                          *)
(***************************************************************************)
\* Organization.findOne({ createdBy: session.user.id })
ExistingOrg_WrongFilter(u) == \E i \in OrgIds : orgs[i].createdBy = u /\ i = PhantomId
ExistingOrg(u) == \E i \in OrgIds : orgs[i].createdBy = u

\* organization-creating handlers that have not answered yet
OrgCreatesInFlight ==
    Cardinality({q \in Slots : reqs[q].kind = "orgCreate" /\ reqs[q].pc # "done"})

OrgCreateStart(r, u, name) ==
    /\ CanStart(r)
    /\ Len(orgs) + OrgCreatesInFlight < MaxOrgs
    /\ left' = left - 1
    /\ reqs' = [reqs EXCEPT ![r] =
                  IF u = Anon
                  THEN [Begin(r, "orgCreate", u, PhantomId, "done") EXCEPT !.status = 401]
                  ELSE [Begin(r, "orgCreate", u, PhantomId, "findOrg") EXCEPT
                            !.name = name,
                            !.ownedAtStart = (\E i \in OrgIds : orgs[i].createdBy = u)]]
    /\ UNCHANGED <<orgs, tickets, votes, overlapped, page>>

\* const existingOrg = await Organization.findOne(...); then the body is
\* read and validated
OrgCreateFindOne(r) ==
    /\ reqs[r].kind = "orgCreate" /\ reqs[r].pc = "findOrg"
    /\ reqs' = [reqs EXCEPT ![r] =
                  IF ExistingOrg(reqs[r].user) THEN Respond(r, 403)
                  ELSE IF reqs[r].name = <<>> THEN Respond(r, 400)
                  ELSE [reqs[r] EXCEPT !.pc = "createOrg"]]
    /\ UNCHANGED <<orgs, tickets, votes, left, overlapped, page>>

\* await Organization.create({ name, nameLower: name.toLowerCase(), ...,
\* createdBy }): the schema trims name and requires it to be non-empty; no
\* index makes createdBy unique
OrgCreateInsert(r) ==
    /\ reqs[r].kind = "orgCreate" /\ reqs[r].pc = "createOrg"
    /\ IF Trim(reqs[r].name) = <<>>
       THEN /\ reqs' = [reqs EXCEPT ![r] = Respond(r, 500)]
            /\ orgs' = orgs
       ELSE /\ orgs' = Append(orgs, [createdBy |-> reqs[r].user,
                                     name |-> Trim(reqs[r].name),
                                     nameLower |-> ToLowerCase(reqs[r].name)])
            /\ reqs' = [reqs EXCEPT ![r] =
                          [reqs[r] EXCEPT !.pc = "done", !.status = 201,
                                          !.id = Len(orgs) + 1]]
    /\ UNCHANGED <<tickets, votes, left, overlapped, page>>

(***************************************************************************)
(* PATCH /api/orgs/[id]                                                    *)
(***************************************************************************)
OrgPatchStart(r, u, o, name) ==
    /\ CanStart(r)
    /\ left' = left - 1
    /\ reqs' = [reqs EXCEPT ![r] =
                  IF u = Anon
                  THEN [Begin(r, "orgPatch", u, o, "done") EXCEPT !.status = 401]
                  ELSE IF o = InvalidId \/ name = <<>>
                       THEN [Begin(r, "orgPatch", u, o, "done") EXCEPT !.status = 400]
                       ELSE [Begin(r, "orgPatch", u, o, "findOrg") EXCEPT !.name = name]]
    /\ UNCHANGED <<orgs, tickets, votes, overlapped, page>>

\* const organization = await Organization.findById(id); ownership check
OrgPatchFind(r) ==
    /\ reqs[r].kind = "orgPatch" /\ reqs[r].pc = "findOrg"
    /\ reqs' = [reqs EXCEPT ![r] =
                  IF reqs[r].id \notin OrgIds THEN Respond(r, 404)
                  ELSE IF orgs[reqs[r].id].createdBy # reqs[r].user THEN Respond(r, 403)
                  ELSE [reqs[r] EXCEPT !.pc = "saveOrg"]]
    /\ UNCHANGED <<orgs, tickets, votes, left, overlapped, page>>

\* organization.name = name; organization.nameLower = name.toLowerCase();
\* await organization.save(): only the modified paths are written
OrgPatchSave(r) ==
    /\ reqs[r].kind = "orgPatch" /\ reqs[r].pc = "saveOrg"
    /\ IF Trim(reqs[r].name) = <<>>
       THEN /\ reqs' = [reqs EXCEPT ![r] = Respond(r, 500)]
            /\ orgs' = orgs
       ELSE /\ orgs' = [orgs EXCEPT ![reqs[r].id].name = Trim(reqs[r].name),
                                    ![reqs[r].id].nameLower = ToLowerCase(reqs[r].name)]
            /\ reqs' = [reqs EXCEPT ![r] = Respond(r, 200)]
    /\ UNCHANGED <<tickets, votes, left, overlapped, page>>

OrgSteps ==
    \/ \E r \in Slots : OrgCreateFindOne(r)
    \/ \E r \in Slots : OrgCreateInsert(r)
    \/ \E r \in Slots : OrgPatchFind(r)
    \/ \E r \in Slots : OrgPatchSave(r)

NextOrg ==
    \/ \E r \in Slots : Release(r)
    \/ \E r \in Slots, u \in Callers, name \in OrgNames : OrgCreateStart(r, u, name)
    \/ \E r \in Slots, u \in Callers, o \in OrgRefs, name \in OrgNames :
          OrgPatchStart(r, u, o, name)
    \/ OrgSteps

SpecOrg == Init /\ [][NextOrg]_vars

(***************************************************************************)
(* PATCH /api/tickets/[id]                                                 *)
(***************************************************************************)
\* ticketUpdateSchema.safeParse(body): every key is optional, unknown keys
\* are stripped, and priority, status and tag are among the accepted keys
ValidUpdate(body) ==
    /\ body.priority \in Priorities \cup {Absent}
    /\ body.status \in Statuses \cup {Absent}
    /\ body.tag \in Tags \cup {Absent}

\* result.data of ticketUpdateSchema.safeParse(body): z.object strips the
\* keys the schema does not name, reportedBy and organizationId among them
ParsedUpdate_Passthrough(body) == body
ParsedUpdate(body) == [body EXCEPT !.reportedBy = Absent, !.organizationId = MissingId]

\* { $set: result.data }: every key of the parsed body is written
ApplySet(doc, data) ==
    [doc EXCEPT !.title = IF data.title # Absent THEN data.title ELSE @,
                !.priority = IF data.priority # Absent THEN data.priority ELSE @,
                !.status = IF data.status # Absent THEN data.status ELSE @,
                !.tag = IF data.tag # Absent THEN data.tag ELSE @,
                !.reportedBy = IF data.reportedBy # Absent THEN data.reportedBy ELSE @,
                !.organizationId = IF data.organizationId # MissingId
                                   THEN data.organizationId ELSE @]

\* bodies the requests of the model carry
UpdateBodies ==
    {NoBody,
     [NoBody EXCEPT !.title = "t2"],
     [NoBody EXCEPT !.status = "closed"],
     [NoBody EXCEPT !.priority = "high"],
     [NoBody EXCEPT !.tag = "feature"],
     [NoBody EXCEPT !.priority = "urgent"]}

\* Ticket.findOneAndUpdate({ _id, reportedBy: session.user.id },
\* { $set: result.data }, { new: true }): the one store call of the handler
TicketPatch(r, u, t, body) ==
    /\ CanStart(r)
    /\ left' = left - 1
    /\ LET req == [Begin(r, "ticketPatch", u, t, "done") EXCEPT !.body = body]
       IN IF u = Anon
          THEN /\ reqs' = [reqs EXCEPT ![r] = [req EXCEPT !.status = 401]]
               /\ tickets' = tickets
          ELSE IF t = InvalidId \/ ~ValidUpdate(body)
          THEN /\ reqs' = [reqs EXCEPT ![r] = [req EXCEPT !.status = 400]]
               /\ tickets' = tickets
          ELSE IF MatchesReporter(t, u)
          THEN /\ tickets' = [tickets EXCEPT ![t] = ApplySet(tickets[t], ParsedUpdate(body))]
               /\ reqs' = [reqs EXCEPT ![r] = [req EXCEPT !.status = 200]]
          ELSE /\ reqs' = [reqs EXCEPT ![r] = [req EXCEPT !.status = 404]]
               /\ tickets' = tickets
    /\ UNCHANGED <<orgs, votes, overlapped, page>>

(***************************************************************************)
(* PATCH /api/tickets/[id]/status                                          *)
(***************************************************************************)
\* values of the status key the requests of the model carry
StatusInputs == {"in-progress", "open", "done"}

StatusStart(r, u, t, st) ==
    /\ CanStart(r)
    /\ left' = left - 1
    /\ LET req == [Begin(r, "status", u, t, "findTicket") EXCEPT !.body.status = st]
       IN reqs' = [reqs EXCEPT ![r] =
                     IF u = Anon THEN [req EXCEPT !.pc = "done", !.status = 401]
                     ELSE IF t = InvalidId \/ st \notin Statuses
                          THEN [req EXCEPT !.pc = "done", !.status = 400]
                          ELSE req]
    /\ UNCHANGED <<orgs, tickets, votes, overlapped, page>>

\* const ticket = await Ticket.findById(id)
StatusFindTicket(r) ==
    /\ reqs[r].kind = "status" /\ reqs[r].pc = "findTicket"
    /\ reqs' = [reqs EXCEPT ![r] =
                  IF TicketExists(reqs[r].id)
                  THEN [reqs[r] EXCEPT !.pc = "findOrg",
                            !.organizationId = tickets[reqs[r].id].organizationId,
                            !.ticketStatus = tickets[reqs[r].id].status,
                            !.ticketVotes = tickets[reqs[r].id].votes]
                  ELSE Respond(r, 404)]
    /\ UNCHANGED <<orgs, tickets, votes, left, overlapped, page>>

\* Organization.findOne({ _id: ticket.organizationId, createdBy: session.user.id })
OwnsOrg(u, o) == o \in OrgIds /\ orgs[o].createdBy = u

StatusFindOrg(r) ==
    /\ reqs[r].kind = "status" /\ reqs[r].pc = "findOrg"
    /\ reqs' = [reqs EXCEPT ![r] =
                  IF OwnsOrg(reqs[r].user, reqs[r].organizationId)
                  THEN [reqs[r] EXCEPT !.pc = "saveTicket"]
                  ELSE Respond(r, 403)]
    /\ UNCHANGED <<orgs, tickets, votes, left, overlapped, page>>

\* what ticket.save() writes to the stored document: the modified paths
\* only, here status; cachedVotes is votes of the loaded document
SavedTicket_WholeDocument(doc, status, cachedVotes) ==
    [doc EXCEPT !.status = status, !.votes = cachedVotes]
SavedTicket(doc, status, cachedVotes) == [doc EXCEPT !.status = status]

\* ticket.status = result.data.status; await ticket.save(): save validates
\* the loaded document first (votes has min: 0) and throws when that
\* fails; it writes nothing when the loaded status is the new one, and
\* throws when the ticket is gone
StatusSave(r) ==
    /\ reqs[r].kind = "status" /\ reqs[r].pc = "saveTicket"
    /\ IF reqs[r].ticketVotes < 0
       THEN /\ reqs' = [reqs EXCEPT ![r] = Respond(r, 500)]
            /\ tickets' = tickets
       ELSE IF reqs[r].body.status = reqs[r].ticketStatus
       THEN /\ reqs' = [reqs EXCEPT ![r] = Respond(r, 200)]
            /\ tickets' = tickets
       ELSE IF TicketExists(reqs[r].id)
       THEN /\ tickets' = [tickets EXCEPT ![reqs[r].id] =
                             SavedTicket(@, reqs[r].body.status, reqs[r].ticketVotes)]
            /\ reqs' = [reqs EXCEPT ![r] = Respond(r, 200)]
       ELSE /\ reqs' = [reqs EXCEPT ![r] = Respond(r, 500)]
            /\ tickets' = tickets
    /\ UNCHANGED <<orgs, votes, left, overlapped, page>>

(***************************************************************************)
(* The inference collaborator's answers.                                   *)
(***************************************************************************)
\* const validPriorities / const validTypes
ValidPriorities_AnyString == {"low", "medium", "high", "urgent"}
ValidPriorities == {"low", "medium", "high"}
ValidTypes == {"bug", "feature", "tweak"}

\* what callSnowflakeLLM can do: throw, or return no content, or content
\* that does not parse, or content that parses to { priority, type }
LlmThrows == [kind |-> "throws", priority |-> Absent, type |-> Absent]
LlmEmpty == [kind |-> "empty", priority |-> Absent, type |-> Absent]
LlmGarbage == [kind |-> "garbage", priority |-> Absent, type |-> Absent]
TriageAnswers ==
    {LlmThrows, LlmEmpty, LlmGarbage}
        \cup {[kind |-> "json", priority |-> p, type |-> y] :
                 p \in {"medium", "urgent"}, y \in {"tweak", "epic"}}

(***************************************************************************)
(* POST /api/tickets/[id]/triage                                           *)
(***************************************************************************)
TriageStart(r, u, t) ==
    /\ CanStart(r)
    /\ left' = left - 1
    /\ reqs' = [reqs EXCEPT ![r] =
                  IF u = Anon THEN [Begin(r, "triage", u, t, "done") EXCEPT !.status = 401]
                  ELSE IF t = InvalidId
                       THEN [Begin(r, "triage", u, t, "done") EXCEPT !.status = 400]
                       ELSE Begin(r, "triage", u, t, "findTicket")]
    /\ UNCHANGED <<orgs, tickets, votes, overlapped, page>>

\* const ticket = await Ticket.findById(id).lean()
TriageFindTicket(r) ==
    /\ reqs[r].kind = "triage" /\ reqs[r].pc = "findTicket"
    /\ reqs' = [reqs EXCEPT ![r] =
                  IF TicketExists(reqs[r].id)
                  THEN [reqs[r] EXCEPT !.pc = "findOrg",
                            !.organizationId = tickets[reqs[r].id].organizationId]
                  ELSE Respond(r, 404)]
    /\ UNCHANGED <<orgs, tickets, votes, left, overlapped, page>>

\* a handler that would mark the ticket pending before it asks for the
\* inference
TriageFindOrg_MarksPending(r) ==
    /\ reqs[r].kind = "triage" /\ reqs[r].pc = "findOrg"
    /\ reqs' = [reqs EXCEPT ![r] =
                  IF reqs[r].organizationId \notin OrgIds THEN Respond(r, 404)
                  ELSE IF orgs[reqs[r].organizationId].createdBy # reqs[r].user
                       THEN Respond(r, 403)
                       ELSE [reqs[r] EXCEPT !.pc = "llm"]]
    /\ tickets' = IF TicketExists(reqs[r].id) /\ OwnsOrg(reqs[r].user, reqs[r].organizationId)
                  THEN [tickets EXCEPT ![reqs[r].id].triageStatus = "pending"]
                  ELSE tickets
    /\ UNCHANGED <<orgs, votes, left, overlapped, page>>

\* const organization = await Organization.findById(ticket.organizationId);
\* organization.createdBy.toString() !== session.user.id
TriageFindOrg(r) ==
    /\ reqs[r].kind = "triage" /\ reqs[r].pc = "findOrg"
    /\ reqs' = [reqs EXCEPT ![r] =
                  IF reqs[r].organizationId \notin OrgIds THEN Respond(r, 404)
                  ELSE IF orgs[reqs[r].organizationId].createdBy # reqs[r].user
                       THEN Respond(r, 403)
                       ELSE [reqs[r] EXCEPT !.pc = "llm"]]
    /\ UNCHANGED <<orgs, tickets, votes, left, overlapped, page>>

\* await callSnowflakeLLM(...); JSON.parse; validation of priority and type
TriageLlm(r, answer) ==
    /\ reqs[r].kind = "triage" /\ reqs[r].pc = "llm"
    /\ reqs' = [reqs EXCEPT ![r] =
                  IF answer.kind # "json"
                  THEN [Respond(r, 500) EXCEPT !.answer = answer]
                  ELSE IF answer.priority \notin ValidPriorities
                          \/ answer.type \notin ValidTypes
                       THEN [Respond(r, 500) EXCEPT !.answer = answer]
                       ELSE [reqs[r] EXCEPT !.pc = "updateTicket",
                                            !.answer = answer,
                                            !.body.priority = answer.priority,
                                            !.body.tag = answer.type]]
    /\ UNCHANGED <<orgs, tickets, votes, left, overlapped, page>>

\* the $set of a triage result
Triaged(doc, priority, tag) ==
    [doc EXCEPT !.priority = priority, !.tag = tag,
                !.lastTriagedAt = "now", !.triageStatus = "triaged"]

\* const updatedTicket = await Ticket.findByIdAndUpdate(id, { $set: ... });
\* updatedTicket!._id throws when the ticket is gone
TriageUpdate(r) ==
    /\ reqs[r].kind = "triage" /\ reqs[r].pc = "updateTicket"
    /\ IF TicketExists(reqs[r].id)
       THEN /\ tickets' = [tickets EXCEPT ![reqs[r].id] =
                             Triaged(@, reqs[r].body.priority, reqs[r].body.tag)]
            /\ reqs' = [reqs EXCEPT ![r] = Respond(r, 200)]
       ELSE /\ reqs' = [reqs EXCEPT ![r] = Respond(r, 500)]
            /\ tickets' = tickets
    /\ UNCHANGED <<orgs, votes, left, overlapped, page>>

(***************************************************************************)
(* POST /api/orgs/[id]/triage                                              *)
(***************************************************************************)
\* longest array the inference collaborator answers with
MaxItems == 2

\* elements of the array parsed from the answer
TriageItems ==
    [id : TicketIds \cup {PhantomId}, priority : {"low", "medium", "urgent"},
     type : {"tweak", "epic"}]

\* what the inference call of bulk triage can come to: callSnowflakeLLM
\* throws, the answer has no content, the content is not JSON, the JSON is
\* not an array, or it is an array
BulkAnswerKinds == {"throws", "empty", "garbage", "notArray", "array"}

RECURSIVE SeqsUpTo(_, _)
SeqsUpTo(S, n) ==
    IF n = 0 THEN {<<>>}
    ELSE LET shorter == SeqsUpTo(S, n - 1)
         IN shorter \cup {Append(q, x) : q \in shorter, x \in S}

BulkStart(r, u, o) ==
    /\ CanStart(r)
    /\ left' = left - 1
    /\ reqs' = [reqs EXCEPT ![r] =
                  IF u = Anon THEN [Begin(r, "bulk", u, o, "done") EXCEPT !.status = 401]
                  ELSE IF o = InvalidId
                       THEN [Begin(r, "bulk", u, o, "done") EXCEPT !.status = 400]
                       ELSE Begin(r, "bulk", u, o, "findOrg")]
    /\ UNCHANGED <<orgs, tickets, votes, overlapped, page>>

\* const organization = await Organization.findById(id); ownership check
BulkFindOrg(r) ==
    /\ reqs[r].kind = "bulk" /\ reqs[r].pc = "findOrg"
    /\ reqs' = [reqs EXCEPT ![r] =
                  IF reqs[r].id \notin OrgIds THEN Respond(r, 404)
                  ELSE IF orgs[reqs[r].id].createdBy # reqs[r].user THEN Respond(r, 403)
                       ELSE [reqs[r] EXCEPT !.pc = "findTickets"]]
    /\ UNCHANGED <<orgs, tickets, votes, left, overlapped, page>>

\* Ticket.find({ organizationId })
TicketsOfOrg(o) == {t \in TicketIds : tickets[t].exists /\ tickets[t].organizationId = o}

BulkFindTickets(r) ==
    /\ reqs[r].kind = "bulk" /\ reqs[r].pc = "findTickets"
    /\ reqs' = [reqs EXCEPT ![r] =
                  IF TicketsOfOrg(reqs[r].id) = {} THEN Respond(r, 200)
                  ELSE [reqs[r] EXCEPT !.pc = "llm",
                                       !.ticketIdSet = TicketsOfOrg(reqs[r].id)]]
    /\ UNCHANGED <<orgs, tickets, votes, left, overlapped, page>>

\* the loop over triageResults that fills bulkOps
KeepItem_AnyPriority(ids, e) ==
    /\ e.id \in ids
    /\ e.type \in ValidTypes
KeepItem(ids, e) ==
    /\ e.id \in ids
    /\ e.priority \in ValidPriorities
    /\ e.type \in ValidTypes

BulkOps(ids, results) == SelectSeq(results, LAMBDA e : KeepItem(ids, e))

\* await callSnowflakeLLM({ prompt }); parse; build bulkOps.  Every answer
\* that is not an array ends in a return with status 500; with no element
\* kept, bulkWrite is skipped and updatedCount stays 0
BulkLlm(r, kind, results) ==
    /\ reqs[r].kind = "bulk" /\ reqs[r].pc = "llm"
    /\ kind # "array" => results = <<>>
    /\ LET got == [reqs[r] EXCEPT !.answer.kind = kind,
                                    !.answerIds = {results[i].id : i \in DOMAIN results}]
       IN reqs' = [reqs EXCEPT ![r] =
                     IF kind # "array" THEN [got EXCEPT !.pc = "done", !.status = 500]
                     ELSE IF BulkOps(reqs[r].ticketIdSet, results) = <<>>
                          THEN [got EXCEPT !.pc = "done", !.status = 200]
                          ELSE [got EXCEPT !.pc = "bulkWrite",
                                    !.bulkOps = BulkOps(reqs[r].ticketIdSet, results)]]
    /\ UNCHANGED <<orgs, tickets, votes, left, overlapped, page>>

\* Ticket.bulkWrite(bulkOps): updateOne with filter { _id, organizationId }
RECURSIVE ApplyBulk(_, _, _)
ApplyBulk_EveryTicket(tks, ops, o) ==
    [t \in DOMAIN tks |->
        IF tks[t].exists THEN Triaged(tks[t], Head(ops).priority, Head(ops).type)
        ELSE tks[t]]
ApplyBulk(tks, ops, o) ==
    IF ops = <<>> THEN tks
    ELSE LET e == Head(ops)
             hit == e.id \in DOMAIN tks /\ tks[e.id].exists
                        /\ tks[e.id].organizationId = o
         IN ApplyBulk(IF hit
                      THEN [tks EXCEPT ![e.id] = Triaged(@, e.priority, e.type)]
                      ELSE tks,
                      Tail(ops), o)

\* bulkResult.modifiedCount: the operations that changed a document.  The
\* first operation to hit a ticket always does (lastTriagedAt: now is new);
\* a later one of the same batch does when its priority or type differs
RECURSIVE ModifiedCount(_, _, _, _)
ModifiedCount(tks, ops, o, touched) ==
    IF ops = <<>> THEN 0
    ELSE LET e == Head(ops)
             hit == e.id \in DOMAIN tks /\ tks[e.id].exists
                        /\ tks[e.id].organizationId = o
             modifies == hit /\ (e.id \notin touched
                                   \/ tks[e.id].priority # e.priority
                                   \/ tks[e.id].tag # e.type)
         IN (IF modifies THEN 1 ELSE 0)
              + ModifiedCount(IF hit
                              THEN [tks EXCEPT ![e.id] = Triaged(@, e.priority, e.type)]
                              ELSE tks,
                              Tail(ops), o,
                              IF hit THEN touched \cup {e.id} ELSE touched)

BulkWrite(r) ==
    /\ reqs[r].kind = "bulk" /\ reqs[r].pc = "bulkWrite"
    /\ tickets' = ApplyBulk(tickets, reqs[r].bulkOps, reqs[r].id)
    /\ reqs' = [reqs EXCEPT ![r] =
                  [Respond(r, 200) EXCEPT
                      !.updatedCount = ModifiedCount(tickets, reqs[r].bulkOps,
                                                     reqs[r].id, {})]]
    /\ UNCHANGED <<orgs, votes, left, overlapped, page>>

(***************************************************************************)
(* POST /api/orgs/[id]/summary                                             *)
(***************************************************************************)
SummaryStart(r, u, o) ==
    /\ CanStart(r)
    /\ left' = left - 1
    /\ reqs' = [reqs EXCEPT ![r] =
                  IF u = Anon THEN [Begin(r, "summary", u, o, "done") EXCEPT !.status = 401]
                  ELSE Begin(r, "summary", u, o, "findTickets")]
    /\ UNCHANGED <<orgs, tickets, votes, overlapped, page>>

\* const tickets = await Ticket.find({ organizationId: orgId }): a string
\* that is no ObjectId makes the query throw; the organization is not loaded
SummaryFindTickets(r) ==
    /\ reqs[r].kind = "summary" /\ reqs[r].pc = "findTickets"
    /\ reqs' = [reqs EXCEPT ![r] =
                  IF reqs[r].id = InvalidId THEN Respond(r, 500)
                  ELSE IF TicketsOfOrg(reqs[r].id) = {} THEN Respond(r, 200)
                  ELSE [reqs[r] EXCEPT !.pc = "llm",
                                       !.ticketIdSet = TicketsOfOrg(reqs[r].id)]]
    /\ UNCHANGED <<orgs, tickets, votes, left, overlapped, page>>

\* await callSnowflakeLLM({ prompt, model }): the prompt holds the tickets
SummaryLlm(r, fails) ==
    /\ reqs[r].kind = "summary" /\ reqs[r].pc = "llm"
    /\ reqs' = [reqs EXCEPT ![r] = Respond(r, IF fails THEN 500 ELSE 200)]
    /\ UNCHANGED <<orgs, tickets, votes, left, overlapped, page>>

TicketSteps ==
    \/ \E r \in Slots : StatusFindTicket(r)
    \/ \E r \in Slots : StatusFindOrg(r)
    \/ \E r \in Slots : StatusSave(r)
    \/ \E r \in Slots : TriageFindTicket(r)
    \/ \E r \in Slots : TriageFindOrg(r)
    \/ \E r \in Slots, answer \in TriageAnswers : TriageLlm(r, answer)
    \/ \E r \in Slots : TriageUpdate(r)
    \/ \E r \in Slots : BulkFindOrg(r)
    \/ \E r \in Slots : BulkFindTickets(r)
    \/ \E r \in Slots, kind \in BulkAnswerKinds,
             results \in SeqsUpTo(TriageItems, MaxItems) : BulkLlm(r, kind, results)
    \/ \E r \in Slots : BulkWrite(r)
    \/ \E r \in Slots : SummaryFindTickets(r)
    \/ \E r \in Slots, fails \in BOOLEAN : SummaryLlm(r, fails)

(***************************************************************************)
(* The vote ledger: the toggle handler with every other handler that       *)
(* writes the Vote collection or a ticket's votes field (ticket creation   *)
(* and deletion).                                                          *)
(***************************************************************************)
VoteSteps ==
    \/ \E r \in Slots : VoteFindTicket(r)
    \/ \E r \in Slots : VoteFindVote(r)
    \/ \E r \in Slots : VoteDeleteOne(r)
    \/ \E r \in Slots : VoteDec(r)
    \/ \E r \in Slots : VoteCreate(r)
    \/ \E r \in Slots : VoteInc(r)
    \/ \E r \in Slots : VoteReadBack(r)

NextVote ==
    \/ \E r \in Slots : Release(r)
    \/ \E r \in Slots, u \in Callers, t \in TicketRefs : VoteStart(r, u, t)
    \/ VoteSteps
    \/ \E r \in Slots, u \in Callers, o \in {PhantomId, InvalidId} :
          TicketCreate(r, u, o, "t1", "none", "bug")
    \/ \E r \in Slots, u \in Callers, t \in TicketRefs : TicketDelete(r, u, t)

SpecVote == Init /\ [][NextVote]_vars

(***************************************************************************)
(* The server: every handler that writes the store or calls the inference  *)
(* collaborator.                                                           *)
(***************************************************************************)
Next ==
    \/ \E r \in Slots : Release(r)
    \/ \E r \in Slots, u \in Callers : OrgCreateStart(r, u, <<"A", "b">>)
    \/ \E r \in Slots, u \in Callers, o \in OrgRefs :
          TicketCreate(r, u, o, "t1", "none", "bug")
    \/ \E r \in Slots, u \in Callers, t \in TicketRefs, body \in UpdateBodies :
          TicketPatch(r, u, t, body)
    \/ \E r \in Slots, u \in Callers, t \in TicketRefs : TicketDelete(r, u, t)
    \/ \E r \in Slots, u \in Callers, t \in TicketRefs, st \in StatusInputs :
          StatusStart(r, u, t, st)
    \/ \E r \in Slots, u \in Callers, t \in TicketRefs : TriageStart(r, u, t)
    \/ \E r \in Slots, u \in Callers, o \in OrgRefs : BulkStart(r, u, o)
    \/ \E r \in Slots, u \in Callers, o \in OrgRefs : SummaryStart(r, u, o)
    \/ \E r \in Slots, u \in Callers, t \in TicketRefs : VoteStart(r, u, t)
    \/ \E r \in Slots : OrgCreateFindOne(r)
    \/ \E r \in Slots : OrgCreateInsert(r)
    \/ TicketSteps
    \/ VoteSteps

InitServer ==
    /\ orgs = <<>>
    /\ tickets = <<>>
    /\ votes = {}
    /\ reqs = [r \in Slots |-> Idle]
    /\ left = MaxServerRequests
    /\ overlapped = FALSE
    /\ page = NoPage

Spec == InitServer /\ [][Next]_vars

(***************************************************************************)
(* Properties of the vote ledger.                                          *)
(***************************************************************************)
\* no handler is between two of its store calls
Quiescent == \A r \in Slots : reqs[r].pc \in {"idle", "done"}

SamePair(v, u, t) == v.userId = u /\ v.ticketId = t

\* toggles of ticket t that have inserted their row and not yet incremented
PendingInc(t) ==
    Cardinality({r \in Slots : reqs[r].kind = "vote" /\ reqs[r].pc = "incVotes"
                                /\ reqs[r].id = t})

\* toggles of ticket t that are past deleteOne and have not yet decremented
PendingDec(t) ==
    Cardinality({r \in Slots : reqs[r].kind = "vote" /\ reqs[r].pc = "decVotes"
                                /\ reqs[r].id = t})

\* C1: counter consistency.  In every quiescent state each ticket's votes
\* counter equals the number of Vote rows of the ticket.
CounterConsistency ==
    Quiescent =>
        \A t \in TicketIds :
            tickets[t].exists => tickets[t].votes = Cardinality(VotesOf(t))

\* C2: uniqueness.  There is never more than one Vote row per (userId,
\* ticketId); a create step that finds the pair already present inserts
\* nothing, changes no counter and ends the request before its increment,
\* one that does not find it inserts exactly one row; and a counter only
\* ever rises by one, in the increment step of a request that inserted a row.
VoteUnique ==
    \A v \in votes, w \in votes :
        (v.userId = w.userId /\ v.ticketId = w.ticketId) => v = w

CreateStep(r) ==
    (reqs[r].kind = "vote" /\ reqs[r].pc = "createVote" /\ reqs'[r] # reqs[r]) =>
        LET had == \E v \in votes : SamePair(v, reqs[r].user, reqs[r].id)
        IN /\ Cardinality({v \in votes' : SamePair(v, reqs[r].user, reqs[r].id)}) = 1
           /\ tickets' = tickets
           /\ had => (votes' = votes /\ reqs'[r].pc = "done")
           /\ ~had => (Cardinality(votes') = Cardinality(votes) + 1
                       /\ reqs'[r].pc = "incVotes")

CounterRise(t) ==
    (tickets'[t].exists /\ tickets'[t].votes > tickets[t].votes) =>
        /\ tickets'[t].votes = tickets[t].votes + 1
        /\ \E r \in Slots :
              /\ reqs[r].kind = "vote" /\ reqs[r].pc = "incVotes" /\ reqs[r].id = t
              /\ reqs'[r].pc = "readVoted"

Uniqueness ==
    /\ []VoteUnique
    /\ [][(\A r \in Slots : CreateStep(r)) /\ (\A t \in TicketIds : CounterRise(t))]_vars

\* C2 witness: two toggles of one pair both found no vote; one has inserted
\* the row, the other was rejected by the index.
UniquenessWitness ==
    \E r \in Slots, q \in Slots :
        /\ r # q
        /\ reqs[r].kind = "vote" /\ reqs[q].kind = "vote"
        /\ reqs[r].user = reqs[q].user /\ reqs[r].id = reqs[q].id
        /\ reqs[r].pc = "incVotes"
        /\ reqs[q].pc = "done" /\ reqs[q].status = 500 /\ reqs[q].existingVote = 0
        /\ Cardinality({v \in votes : SamePair(v, reqs[r].user, reqs[r].id)}) = 1

\* C3: a toggle whose insert is rejected as a duplicate answers as success,
\* never with a server error.  (The duplicate insert is the only store call
\* of the handler that throws here.)
DuplicateIsSuccess ==
    \A r \in Slots :
        (reqs[r].kind = "vote" /\ reqs[r].pc = "done") => reqs[r].status # 500

\* C4: no ticket's votes counter is ever negative.
VotesNonNegative == \A t \in TicketIds : tickets[t].votes >= 0

\* C5: no lost update.  As long as no user has had two toggles of one ticket
\* in flight at once, every ticket's counter equals its number of Vote rows,
\* less the inserts not yet counted, plus the deletions not yet counted, and
\* no toggle fails; so k concurrent first toggles by k users end with k rows
\* and the counter k higher.
NoLostUpdate ==
    ~overlapped =>
        /\ \A t \in TicketIds :
              tickets[t].exists =>
                  tickets[t].votes = Cardinality(VotesOf(t)) - PendingInc(t) + PendingDec(t)
        /\ \A r \in Slots :
              (reqs[r].kind = "vote" /\ reqs[r].pc = "done") => reqs[r].status # 500

\* C5 witness: two users' toggles of one ticket both read the counter at 0
\* before either changed it, both inserted their row and both answered
\* voted; the counter is 2 and the ticket has 2 rows.
NoLostUpdateWitness ==
    /\ ~overlapped
    /\ \E r \in Slots, q \in Slots :
          /\ reqs[r].kind = "vote" /\ reqs[q].kind = "vote"
          /\ reqs[r].user # reqs[q].user /\ reqs[r].id = reqs[q].id
          /\ reqs[r].pc = "done" /\ reqs[q].pc = "done"
          /\ reqs[r].voted /\ reqs[q].voted
          /\ reqs[r].ticketVotes = 0 /\ reqs[q].ticketVotes = 0
          /\ TicketExists(reqs[r].id)
          /\ tickets[reqs[r].id].votes = 2
          /\ Cardinality(VotesOf(reqs[r].id)) = 2

(***************************************************************************)
(* Properties of organization creation.                                    *)
(***************************************************************************)
\* C6: single-organization cap.  No user is the createdBy of two
\* organizations, also after two concurrent Create Organization requests.
OneOrgPerUser ==
    \A i \in OrgIds, j \in OrgIds : orgs[i].createdBy = orgs[j].createdBy => i = j

\* C7: a Create Organization request whose caller owned an organization when
\* it left only ever answers 403, whatever its body, and none of its
\* steps inserts or changes an organization.
RejectedWhenOwner(r) ==
    (reqs[r].kind = "orgCreate" /\ reqs[r].ownedAtStart) =>
        /\ reqs[r].pc \in {"findOrg", "done"}
        /\ reqs[r].pc = "done" => reqs[r].status = 403

OwnerStepKeepsOrgs(r) ==
    (reqs[r].kind = "orgCreate" /\ reqs[r].ownedAtStart /\ reqs'[r] # reqs[r]) =>
        orgs' = orgs

CapSequential ==
    /\ [](\A r \in Slots : RejectedWhenOwner(r))
    /\ [][\A r \in Slots : OwnerStepKeepsOrgs(r)]_vars

\* C7 witness: a caller who owned an organization at the start sent a body
\* that validation accepts, and was answered 403.
CapSequentialWitness ==
    \E r \in Slots :
        /\ reqs[r].kind = "orgCreate" /\ reqs[r].ownedAtStart
        /\ reqs[r].name = <<"A", "b">>
        /\ reqs[r].pc = "done" /\ reqs[r].status = 403
        /\ Cardinality({i \in OrgIds : orgs[i].createdBy = reqs[r].user}) = 1

(***************************************************************************)
(* Properties of authorization.                                            *)
(***************************************************************************)
\* the request that takes the step
Acts(r) == reqs'[r] # reqs[r]

\* C8: the status of a ticket of an existing organization changes only in a
\* step of a request whose caller is the createdBy of that organization.
StatusByOwnerOnly ==
    [][\A t \in TicketIds :
          (tickets'[t].exists /\ tickets[t].organizationId \in OrgIds
             /\ tickets'[t].status # tickets[t].status) =>
              \E r \in Slots :
                  Acts(r) /\ OwnsOrg(reqs'[r].user, tickets[t].organizationId)]_vars

\* C9: after creation the priority and tag of a ticket of an existing
\* organization change only in a step of a single-ticket triage or bulk
\* triage request made by the owner of that organization.
PriorityTagByTriageOnly ==
    [][\A t \in TicketIds :
          (tickets'[t].exists /\ tickets[t].organizationId \in OrgIds
             /\ (tickets'[t].priority # tickets[t].priority
                   \/ tickets'[t].tag # tickets[t].tag)) =>
              \E r \in Slots :
                  /\ Acts(r)
                  /\ reqs[r].kind \in {"triage", "bulk"}
                  /\ OwnsOrg(reqs[r].user, tickets[t].organizationId)]_vars

\* C10: a summary request by an authenticated caller who is not the
\* createdBy of the organization is denied, and never has an inference call
\* in flight.
SummaryByOwnerOnly ==
    \A r \in Slots :
        (reqs[r].kind = "summary" /\ reqs[r].user # Anon /\ reqs[r].id \in OrgIds
           /\ orgs[reqs[r].id].createdBy # reqs[r].user) =>
            /\ reqs[r].pc # "llm"
            /\ reqs[r].pc = "done" => reqs[r].status = 403

(***************************************************************************)
(* Properties of ticket creation.                                          *)
(***************************************************************************)
\* C11: every ticket's organizationId names an existing organization,
\* because a Create Ticket request for an organization that does not exist
\* is rejected and inserts nothing.
TicketOrgExists ==
    \A t \in TicketIds : tickets[t].exists => tickets[t].organizationId \in OrgIds

(***************************************************************************)
(* The authorization matrix.                                               *)
(***************************************************************************)
\* the step answers request r with code and leaves the store alone
Denied(r, code) ==
    /\ reqs'[r].pc = "done" /\ reqs'[r].status = code
    /\ orgs' = orgs /\ tickets' = tickets /\ votes' = votes

\* the step is the arrival of request r
Arrives(r) == reqs[r].kind = "idle" /\ reqs'[r].kind # "idle"

\* no identity: Unauthenticated, for every action
MatrixUnauthenticated(r) ==
    (Arrives(r) /\ reqs'[r].user = Anon) => Denied(r, 401)

\* edit/delete ticket content: caller is the ticket's reportedBy
MatrixReporter(r) ==
    (/\ Arrives(r) /\ reqs'[r].kind \in {"ticketPatch", "ticketDelete"}
     /\ reqs'[r].user # Anon /\ TicketExists(reqs'[r].id)
     /\ ValidUpdate(reqs'[r].body)) =>
        IF tickets[reqs'[r].id].reportedBy = reqs'[r].user
        THEN reqs'[r].pc = "done" /\ reqs'[r].status = 200
        ELSE Denied(r, 403)

\* the organization whose createdBy the handler of r compares the caller to
OrgOf(r) ==
    IF reqs[r].kind \in {"status", "triage"} THEN reqs[r].organizationId ELSE reqs[r].id

\* change status, triage, bulk triage, summary, edit organization: caller is
\* the createdBy of the organization
MatrixOwner(r) ==
    (/\ Acts(r)
     /\ \/ reqs[r].kind \in {"status", "triage", "bulk", "orgPatch"}
              /\ reqs[r].pc = "findOrg"
        \/ reqs[r].kind = "summary" /\ reqs[r].pc = "findTickets"
     /\ OrgOf(r) \in OrgIds) =>
        IF orgs[OrgOf(r)].createdBy = reqs[r].user
        THEN reqs'[r].status \notin {401, 403}
        ELSE Denied(r, 403)

\* create organization: caller owns no organization
MatrixOrgCreate(r) ==
    (Acts(r) /\ reqs[r].kind = "orgCreate" /\ reqs[r].pc = "findOrg") =>
        IF ExistingOrg(reqs[r].user)
        THEN Denied(r, 403)
        ELSE reqs'[r].status \notin {401, 403}

\* create ticket, vote: caller is authenticated
MatrixAuthenticated(r) ==
    (Arrives(r) /\ reqs'[r].kind \in {"ticketCreate", "vote"} /\ reqs'[r].user # Anon) =>
        reqs'[r].status \notin {401, 403}

\* C12: authorization matrix.  For every action of the policy a caller
\* without identity is answered 401, a caller with an identity who fails the
\* action's rule is answered 403, in both cases the store is unchanged, and
\* a caller who satisfies the rule is not denied.
AuthorizationMatrix ==
    [][\A r \in Slots :
          /\ MatrixUnauthenticated(r)
          /\ MatrixReporter(r)
          /\ MatrixOwner(r)
          /\ MatrixOrgCreate(r)
          /\ MatrixAuthenticated(r)]_vars

(***************************************************************************)
(* Properties of ticket content.                                           *)
(***************************************************************************)
\* C13: the content of a ticket (title; description and image take the same
\* path through the handlers) changes, and the ticket is deleted, only in a
\* step of an edit or delete request whose caller is the ticket's
\* reportedBy; every other request, the organization owner's included,
\* leaves content and row as they are.
ContentByReporterOnly ==
    [][\A t \in TicketIds :
          (tickets[t].exists
             /\ (~tickets'[t].exists \/ tickets'[t].title # tickets[t].title)) =>
              \E r \in Slots :
                  /\ Acts(r)
                  /\ reqs'[r].kind \in {"ticketPatch", "ticketDelete"}
                  /\ reqs'[r].user = tickets[t].reportedBy]_vars

\* C13 witness: the owner of the ticket's organization, who is not the
\* reporter, asked for a new title and the title is the old one.
ContentByReporterOnlyWitness ==
    \E r \in Slots, t \in TicketIds :
        /\ reqs[r].kind = "ticketPatch" /\ reqs[r].id = t /\ reqs[r].pc = "done"
        /\ reqs[r].body.title = "t2"
        /\ tickets[t].exists /\ tickets[t].title = "t1"
        /\ OwnsOrg(reqs[r].user, tickets[t].organizationId)
        /\ reqs[r].user # tickets[t].reportedBy
        /\ reqs[r].status = 404

(***************************************************************************)
(* Sequential toggles: every ToggleVote call runs from its first line to   *)
(* its answer before the next one arrives, and nothing else runs.  The     *)
(* ledger starts in a state the concurrent handlers leave behind: one      *)
(* ticket, any set of voters, and a counter that equals the row count or   *)
(* is one below it (the trace of one double decrement).  No slot is        *)
(* released, so slot r holds the r-th call.                                *)
(***************************************************************************)
\* quiescent ledgers of one ticket: the voters and the counter's deficit
LedgerVoters == SUBSET Users

\* the Vote rows of ticket 1 for a set of voters
LedgerRows(S) ==
    {[id |-> (IF u = "u1" THEN 1 ELSE 2), userId |-> u, ticketId |-> 1] : u \in S}

InitToggle ==
    /\ orgs = <<>>
    /\ \E S \in LedgerVoters, k \in {0, 1} :
          /\ votes = LedgerRows(S)
          /\ tickets = <<[exists |-> TRUE, reportedBy |-> "u1",
                          organizationId |-> PhantomId, title |-> "t1",
                          votes |-> Cardinality(S) - k, priority |-> "none",
                          status |-> "open", tag |-> "bug",
                          lastTriagedAt |-> Absent, triageStatus |-> Absent]>>
    /\ reqs = [r \in Slots |-> Idle]
    /\ left = MaxConc
    /\ overlapped = FALSE
    /\ page = NoPage

\* a call arrives when the one before it has answered
SeqVoteStart(r, u, t) == Quiescent /\ VoteStart(r, u, t)

NextToggle ==
    \/ \E r \in Slots, u \in Callers, t \in TicketRefs : SeqVoteStart(r, u, t)
    \/ VoteSteps

SpecToggle == InitToggle /\ [][NextToggle]_vars

\* calls r and r + 1 are two successive toggles of one user on one ticket,
\* and no call has arrived after them
TogglePair(r) ==
    /\ r + 1 \in Slots
    /\ \A q \in Slots : q > r + 1 => reqs[q].kind = "idle"
    /\ reqs[r].kind = "vote" /\ reqs[r + 1].kind = "vote"
    /\ reqs[r].user = reqs[r + 1].user /\ reqs[r].id = reqs[r + 1].id
    /\ reqs[r].user # Anon /\ TicketExists(reqs[r].id)

\* what the handler read at Ticket.findById and Vote.findOne is the state
\* of the ledger before the call, as long as the call has written nothing
ReadsAreBefore(r) ==
    (reqs[r].kind = "vote" /\ reqs[r].pc \in {"deleteVote", "createVote"}) =>
        /\ reqs[r].ticketVotes = tickets[reqs[r].id].votes
        /\ (reqs[r].existingVote # 0) = (VoteFindOne(reqs[r].user, reqs[r].id) # 0)

\* C14: idempotent toggle.  Two successive toggles of (u, t), nothing else
\* running, both succeed and leave the existence of u's vote on t and
\* t.votes as they were before the first of them.
IdempotentToggle ==
    /\ \A r \in Slots : ReadsAreBefore(r)
    /\ \A r \in Slots :
          (TogglePair(r) /\ reqs[r + 1].pc = "done") =>
              /\ reqs[r].status = 200 /\ reqs[r + 1].status = 200
              /\ reqs[r + 1].voted = ~reqs[r].voted
              /\ (VoteFindOne(reqs[r].user, reqs[r].id) # 0) = (reqs[r].existingVote # 0)
              /\ tickets[reqs[r].id].votes = reqs[r].ticketVotes

\* C14 witness: a voter of a ticket with two votes toggled twice; the first
\* call answered (false, 1), the second (true, 2).
IdempotentToggleWitness ==
    /\ TogglePair(1) /\ reqs[2].pc = "done"
    /\ reqs[1].existingVote # 0 /\ reqs[1].ticketVotes = 2
    /\ ~reqs[1].voted /\ reqs[1].votes = 1
    /\ reqs[2].voted /\ reqs[2].votes = 2

(***************************************************************************)
(* Non-overlapping toggles from the empty store: tickets are created and   *)
(* every ToggleVote call answers before the next request arrives.          *)
(***************************************************************************)
NextSeq ==
    \/ \E r \in Slots : Release(r)
    \/ \E r \in Slots, u \in Callers, o \in {PhantomId, InvalidId} :
          TicketCreate(r, u, o, "t1", "none", "bug")
    \/ \E r \in Slots, u \in Callers, t \in TicketRefs : SeqVoteStart(r, u, t)
    \/ VoteSteps

SpecSeq == Init /\ [][NextSeq]_vars

\* the step in which toggle r answers { voted, votes }
Answers(r) ==
    /\ reqs[r].kind = "vote" /\ reqs[r].pc # "done"
    /\ reqs'[r].pc = "done" /\ reqs'[r].status = 200

\* C15: toggle result.  With no two calls overlapping, every call that
\* reaches the ticket answers { voted, votes }: voted is true exactly when
\* the caller had no Vote row before the call (and has one after it), and
\* votes is the number of Vote rows of the ticket after the call.
ToggleResult ==
    /\ [](\A r \in Slots : ReadsAreBefore(r))
    /\ [](\A r \in Slots :
            (reqs[r].kind = "vote" /\ reqs[r].pc = "done") =>
                reqs[r].status \in {200, 400, 401, 404})
    /\ [][\A r \in Slots :
            Answers(r) =>
                /\ reqs'[r].voted = (reqs[r].existingVote = 0)
                /\ reqs'[r].voted = (VoteFindOne(reqs[r].user, reqs[r].id) # 0)
                /\ reqs'[r].votes = Cardinality(VotesOf(reqs[r].id))]_vars

\* C15 witness: on a ticket with 0 votes u1 voted, then u2 toggled and was
\* answered (true, 2), then u1 toggled again and was answered (false, 1).
ToggleResultWitness ==
    \E r \in Slots, q \in Slots :
        /\ reqs[r].kind = "vote" /\ reqs[q].kind = "vote"
        /\ reqs[r].id = reqs[q].id
        /\ reqs[q].user = "u2" /\ reqs[q].pc = "done"
        /\ reqs[q].ticketVotes = 1 /\ reqs[q].voted /\ reqs[q].votes = 2
        /\ reqs[r].user = "u1" /\ reqs[r].pc = "done"
        /\ reqs[r].ticketVotes = 2 /\ reqs[r].existingVote # 0
        /\ ~reqs[r].voted /\ reqs[r].votes = 1
        /\ Cardinality(VotesOf(reqs[r].id)) = 1

(***************************************************************************)
(* Failure modes of the toggle.                                            *)
(***************************************************************************)
\* the ticket id of toggle r names no stored ticket
NoSuchTicket(r) == reqs[r].id \notin TicketIds \/ ~tickets[reqs[r].id].exists

\* C16: toggle failure modes.  A toggle without identity is answered 401;
\* a toggle whose ticket is absent when Ticket.findById runs is answered
\* 404; the step that answers, and every step of the request before it,
\* leaves the Vote rows and every counter as they were.
ToggleFailureModes ==
    [][\A r \in Slots :
          /\ (Arrives(r) /\ reqs'[r].kind = "vote") =>
                /\ votes' = votes /\ tickets' = tickets
                /\ reqs'[r].user = Anon => Denied(r, 401)
          /\ (Acts(r) /\ reqs[r].kind = "vote" /\ reqs[r].pc = "findTicket") =>
                /\ votes' = votes /\ tickets' = tickets
                /\ NoSuchTicket(r) => Denied(r, 404)]_vars

\* C16 witness: one toggle without identity answered 401, and one toggle of
\* a ticket that had been deleted answered 404.
ToggleFailureModesWitness ==
    \E r \in Slots, q \in Slots :
        /\ reqs[r].kind = "vote" /\ reqs[r].user = Anon
        /\ reqs[r].pc = "done" /\ reqs[r].status = 401
        /\ reqs[q].kind = "vote" /\ reqs[q].user # Anon
        /\ reqs[q].id \in TicketIds /\ NoSuchTicket(q)
        /\ reqs[q].pc = "done" /\ reqs[q].status = 404

(***************************************************************************)
(* Properties of organization names.                                       *)
(***************************************************************************)
\* C17: nameLower invariant.  Every stored organization's nameLower is the
\* lower-case form of its stored name, whatever accepted names the Create
\* Organization and Update Organization requests carried.
NameLowerInvariant ==
    \A i \in OrgIds : orgs[i].nameLower = ToLowerCase(orgs[i].name)

(***************************************************************************)
(* Properties of triage.                                                   *)
(***************************************************************************)
\* the tickets the kept elements of bulk request r name, as stored when
\* bulkWrite runs
NamedTickets(r) ==
    {reqs[r].bulkOps[i].id : i \in DOMAIN reqs[r].bulkOps} \cap TicketsOfOrg(reqs[r].id)

AppliedItems(r) == {i \in DOMAIN reqs[r].bulkOps : reqs[r].bulkOps[i].id \in NamedTickets(r)}

BulkParseErrorDegrades ==
    \A r \in Slots :
        (reqs[r].kind = "bulk" /\ reqs[r].pc = "done"
           /\ reqs[r].answer.kind \in {"garbage", "notArray"}) =>
            reqs[r].status = 200 /\ reqs[r].updatedCount = 0

\* the inference answer single-ticket triage request r holds is a
\* { priority, type } object with both values in their enumerations
ValidAnswer(r) ==
    /\ reqs[r].answer.kind = "json"
    /\ reqs[r].answer.priority \in {"low", "medium", "high"}
    /\ reqs[r].answer.type \in {"bug", "feature", "tweak"}

\* C20: single-ticket triage is all-or-nothing.  With an answer that is
\* missing, empty, unparseable or out of the enumerations the request
\* fails and none of its steps changes a ticket; the only step of a triage
\* request that changes a ticket follows a valid answer and sets priority,
\* tag, lastTriagedAt and triageStatus of its ticket together.
TriageAllOrNothing ==
    /\ [](\A r \in Slots :
            (reqs[r].kind = "triage" /\ reqs[r].answer.kind # Absent
               /\ ~ValidAnswer(r)) =>
                reqs[r].pc = "done" /\ reqs[r].status = 500)
    /\ [][\A r \in Slots :
            (Acts(r) /\ reqs[r].kind = "triage") =>
                IF reqs[r].pc = "updateTicket" /\ TicketExists(reqs[r].id)
                THEN /\ ValidAnswer(r)
                     /\ reqs'[r].pc = "done" /\ reqs'[r].status = 200
                     /\ tickets'[reqs[r].id] =
                           [tickets[reqs[r].id] EXCEPT
                               !.priority = reqs[r].answer.priority,
                               !.tag = reqs[r].answer.type,
                               !.lastTriagedAt = "now",
                               !.triageStatus = "triaged"]
                     /\ \A t \in TicketIds \ {reqs[r].id} : tickets'[t] = tickets[t]
                ELSE tickets' = tickets]_vars

\* C20 witness: the answer carried a priority outside the enumeration; the
\* request failed and the ticket is as it was created.
TriageAllOrNothingWitness ==
    \E r \in Slots :
        /\ reqs[r].kind = "triage" /\ reqs[r].pc = "done" /\ reqs[r].status = 500
        /\ reqs[r].answer.kind = "json" /\ reqs[r].answer.priority = "urgent"
        /\ reqs[r].answer.type = "tweak"
        /\ TicketExists(reqs[r].id)
        /\ tickets[reqs[r].id].priority = "none" /\ tickets[reqs[r].id].tag = "bug"
        /\ tickets[reqs[r].id].lastTriagedAt = Absent
        /\ tickets[reqs[r].id].triageStatus = Absent

(***************************************************************************)
(* Properties of the inference-driven requests.                            *)
(***************************************************************************)
\* the step changes the store

\* C21: no mutation before or without the inference result.  A step of a
\* single-ticket triage, bulk triage or summary request changes the store
\* only when the request holds an inference answer that passed its checks;
\* that step is the request's last one (bulk triage: its one batched
\* write), and a summary request never writes.
NoMutationBeforeInference ==
    [][\A r \in Slots :
          (Acts(r) /\ reqs[r].kind \in {"triage", "bulk", "summary"} 
             /\ (orgs' # orgs \/ tickets' # tickets \/ votes' # votes)) =>
              /\ reqs[r].kind # "summary"
              /\ reqs[r].pc \in {"updateTicket", "bulkWrite"}
              /\ reqs[r].answer.kind \in {"json", "array"}
              /\ reqs'[r].pc = "done"
              /\ orgs' = orgs /\ votes' = votes]_vars

\* C21 witness: the inference call of a bulk triage threw after the tickets
\* had been loaded; the request failed and the ticket was never triaged.
NoMutationBeforeInferenceWitness ==
    \E r \in Slots, t \in TicketIds :
        /\ reqs[r].kind = "bulk" /\ reqs[r].pc = "done" /\ reqs[r].status = 500
        /\ reqs[r].answer.kind = "throws"
        /\ t \in reqs[r].ticketIdSet
        /\ tickets[t].exists /\ tickets[t].organizationId = reqs[r].id
        /\ tickets[t].triageStatus = Absent /\ tickets[t].lastTriagedAt = Absent
        /\ tickets[t].priority = "none"

(***************************************************************************)
(* Status updates next to toggles: the store holds one organization of u1  *)
(* with one ticket reported by u2 (the state after one Create Organization *)
(* and one Create Ticket request); status updates and toggles of that      *)
(* ticket then arrive and interleave.                                      *)
(***************************************************************************)
InitStatus ==
    /\ orgs = <<[createdBy |-> "u1", name |-> <<"A", "b">>, nameLower |-> <<"a", "b">>]>>
    /\ tickets = <<[exists |-> TRUE, reportedBy |-> "u2", organizationId |-> 1,
                    title |-> "t1", votes |-> 0, priority |-> "none",
                    status |-> "open", tag |-> "bug",
                    lastTriagedAt |-> Absent, triageStatus |-> Absent]>>
    /\ votes = {}
    /\ reqs = [r \in Slots |-> Idle]
    /\ left = MaxRequests
    /\ overlapped = FALSE
    /\ page = NoPage

NextStatus ==
    \/ \E r \in Slots : Release(r)
    \/ \E r \in Slots, u \in Users, t \in TicketIds, st \in {"open", "closed"} :
          StatusStart(r, u, t, st)
    \/ \E r \in Slots : StatusFindTicket(r)
    \/ \E r \in Slots : StatusFindOrg(r)
    \/ \E r \in Slots : StatusSave(r)
    \/ \E r \in Slots, u \in Users, t \in TicketIds : VoteStart(r, u, t)
    \/ VoteSteps

SpecStatus == InitStatus /\ [][NextStatus]_vars

\* C22: status update frame.  A step of an Update Ticket Status request
\* changes nothing but the status of its ticket: title, priority, tag,
\* reportedBy, organizationId and votes keep the values the store holds at
\* that step, so a votes counter changed by a concurrent toggle after the
\* handler loaded the ticket is not written back; and a request answered
\* 200 leaves the status it asked for when it was written.
StatusUpdateFrame ==
    [][\A r \in Slots :
          (Acts(r) /\ reqs[r].kind = "status") =>
              /\ orgs' = orgs /\ votes' = votes
              /\ \/ tickets' = tickets
                 \/ /\ reqs[r].pc = "saveTicket" /\ reqs'[r].status = 200
                    /\ tickets' = [tickets EXCEPT ![reqs[r].id].status = reqs[r].body.status]]_vars

\* C22 witness: the handler loaded the ticket with 0 votes, a toggle then
\* raised the counter to 1, and the status was saved: the ticket is closed
\* and still has 1 vote.
StatusUpdateFrameWitness ==
    \E r \in Slots :
        /\ reqs[r].kind = "status" /\ reqs[r].pc = "done" /\ reqs[r].status = 200
        /\ reqs[r].body.status = "closed" /\ reqs[r].ticketStatus = "open"
        /\ reqs[r].ticketVotes = 0
        /\ tickets[reqs[r].id].status = "closed"
        /\ tickets[reqs[r].id].votes = 1
        /\ Cardinality(VotesOf(reqs[r].id)) = 1

(***************************************************************************)
(* GET /api/tickets                                                        *)
(***************************************************************************)
\* tickets in one listing of the model
MaxListTickets == 2

\* createdAt: tickets are stored in the order of their creation
CreatedAt(t) == t

\* const priorityOrder = { high: 0, medium: 1, low: 2, none: 3 }
PriorityOrder_Alphabetical(p) ==
    CASE p = "high" -> 0 [] p = "low" -> 1 [] p = "medium" -> 2 [] OTHER -> 3
PriorityOrder(p) ==
    CASE p = "high" -> 0 [] p = "medium" -> 1 [] p = "low" -> 2 [] OTHER -> 3

\* .sort(sortCriteria) of the query: a comes strictly before b
DbBefore(a, b, sort) ==
    IF sort = "mostVoted"
    THEN \/ tickets[a].votes > tickets[b].votes
         \/ tickets[a].votes = tickets[b].votes /\ CreatedAt(a) > CreatedAt(b)
    ELSE CreatedAt(a) > CreatedAt(b)

\* the comparator of tickets.sort(...) for sort=priority is negative
PriorityBefore(a, b) ==
    LET priorityDiff == PriorityOrder(tickets[a].priority)
                           - PriorityOrder(tickets[b].priority)
    IN IF priorityDiff # 0 THEN priorityDiff < 0
       ELSE CreatedAt(b) - CreatedAt(a) < 0

\* the documents of a set in the order of the query's sort
RECURSIVE DbSorted(_, _)
DbSorted(S, sort) ==
    IF S = {} THEN <<>>
    ELSE LET first == CHOOSE a \in S : \A b \in S \ {a} : DbBefore(a, b, sort)
         IN <<first>> \o DbSorted(S \ {first}, sort)

\* Array.prototype.sort with the priority comparator: a stable insertion of
\* x into a sorted array
RECURSIVE InsertByPriority(_, _)
InsertByPriority(sorted, x) ==
    IF sorted = <<>> THEN <<x>>
    ELSE IF PriorityBefore(x, Head(sorted))
         THEN <<x>> \o sorted
         ELSE <<Head(sorted)>> \o InsertByPriority(Tail(sorted), x)

RECURSIVE SortByPriority(_)
SortByPriority(list) ==
    IF list = <<>> THEN <<>>
    ELSE InsertByPriority(SortByPriority(SubSeq(list, 1, Len(list) - 1)),
                          list[Len(list)])

\* the tickets of the listing, in the order of the response
ListTickets(S, sort) ==
    IF sort = "priority" THEN SortByPriority(DbSorted(S, "newest"))
    ELSE DbSorted(S, sort)

\* Ticket.find({ reportedBy: userId })

\* the entries of the response: id and voted flag
ListEntries(ids, voted) == [i \in 1..Len(ids) |-> [id |-> ids[i], voted |-> ids[i] \in voted]]

\* the request is read; submittedByMe=true needs a session, the other mode
\* an organizationId
ListStart(r, u, mine, o, sort) ==
    /\ CanStart(r)
    /\ left' = left - 1
    /\ LET req == [Begin(r, IF mine THEN "listMine" ELSE "list", u, o, "findTickets")
                      EXCEPT !.sort = sort]
       IN reqs' = [reqs EXCEPT ![r] =
                     IF mine
                     THEN IF u = Anon THEN [req EXCEPT !.pc = "done", !.status = 401]
                          ELSE req
                     ELSE IF o = MissingId THEN [req EXCEPT !.pc = "done", !.status = 200]
                          ELSE IF o = InvalidId
                               THEN [req EXCEPT !.pc = "done", !.status = 400]
                               ELSE req]
    /\ UNCHANGED <<orgs, tickets, votes, overlapped, page>>

\* submittedByMe: Ticket.find({ reportedBy }).sort({ createdAt: -1 }); every
\* entry is answered with voted: false
ListFindMine(r) ==
    /\ reqs[r].kind = "listMine" /\ reqs[r].pc = "findTickets"
    /\ LET mine == {t \in TicketIds : /\ tickets[t].exists
                                       /\ tickets[t].reportedBy = reqs[r].user}
       IN reqs' = [reqs EXCEPT ![r] =
                     [reqs[r] EXCEPT !.pc = "done", !.status = 200,
                          !.list = ListEntries(DbSorted(mine, "newest"), {})]]
    /\ UNCHANGED <<orgs, tickets, votes, left, overlapped, page>>

\* Ticket.find(filter).sort(...), then the in-memory sort for sort=priority;
\* without a session the answer follows with every voted flag false
ListFindTickets(r) ==
    /\ reqs[r].kind = "list" /\ reqs[r].pc = "findTickets"
    /\ LET ids == ListTickets(TicketsOfOrg(reqs[r].id), reqs[r].sort)
       IN reqs' = [reqs EXCEPT ![r] =
                     IF reqs[r].user = Anon
                     THEN [reqs[r] EXCEPT !.pc = "done", !.status = 200,
                                          !.list = ListEntries(ids, {})]
                     ELSE [reqs[r] EXCEPT !.pc = "findVotes",
                                          !.list = ListEntries(ids, {})]]
    /\ UNCHANGED <<orgs, tickets, votes, left, overlapped, page>>

\* Vote.find({ userId, ticketId: { $in: ticketIds } })
ListFindVotes(r) ==
    /\ reqs[r].kind = "list" /\ reqs[r].pc = "findVotes"
    /\ LET ids == [i \in 1..Len(reqs[r].list) |-> reqs[r].list[i].id]
           listed == {ids[i] : i \in 1..Len(ids)}
           userVotes == {v.ticketId : v \in {w \in votes : /\ w.userId = reqs[r].user
                                                            /\ w.ticketId \in listed}}
       IN reqs' = [reqs EXCEPT ![r] =
                     [reqs[r] EXCEPT !.pc = "done", !.status = 200,
                          !.list = ListEntries(ids, userVotes)]]
    /\ UNCHANGED <<orgs, tickets, votes, left, overlapped, page>>

(***************************************************************************)
(* Listings.  The store holds two organizations and MaxListTickets tickets *)
(* reported by u1, each in either organization, with any priority and with *)
(* or without the vote of u1 (states that Create Organization, Create      *)
(* Ticket, Update Ticket and ToggleVote requests leave); list requests of  *)
(* both modes then arrive.                                                 *)
(***************************************************************************)
ListedTicket(o, p, voters) ==
    [exists |-> TRUE, reportedBy |-> "u1", organizationId |-> o,
     title |-> "t1", votes |-> Cardinality(voters), priority |-> p,
     status |-> "open", tag |-> "bug",
     lastTriagedAt |-> Absent, triageStatus |-> Absent]

InitList ==
    /\ orgs = <<[createdBy |-> "u1", name |-> <<"A", "b">>, nameLower |-> <<"a", "b">>],
                [createdBy |-> "u2", name |-> <<"b">>, nameLower |-> <<"b">>]>>
    /\ tickets \in [1..MaxListTickets ->
                       {ListedTicket(o, p, vs) :
                           o \in 1..2, p \in Priorities, vs \in {{}, {"u1"}}}]
    /\ votes = {[id |-> t, userId |-> "u1", ticketId |-> t] :
                   t \in {i \in 1..MaxListTickets : tickets[i].votes = 1}}
    /\ reqs = [r \in Slots |-> Idle]
    /\ left = 1
    /\ overlapped = FALSE
    /\ page = NoPage

NextList ==
    \/ \E r \in Slots : Release(r)
    \/ \E r \in Slots, u \in {Anon, "u1"}, mine \in BOOLEAN,
          o \in {MissingId, InvalidId} \cup 1..2,
          sort \in {Absent, "newest", "mostVoted", "priority", "oldest"} :
          ListStart(r, u, mine, o, sort)
    \/ \E r \in Slots : ListFindMine(r)
    \/ \E r \in Slots : ListFindTickets(r)
    \/ \E r \in Slots : ListFindVotes(r)

SpecList == InitList /\ [][NextList]_vars

\* priority p does not rank below priority q: high > medium > low > none
RanksAtLeast(p, q) ==
    \/ p = "high"
    \/ p = "medium" /\ q # "high"
    \/ p = "low" /\ q \in {"low", "none"}
    \/ p = "none" /\ q = "none"

\* the tickets a finished organization listing answered, in order
Listed(r) == [i \in 1..Len(reqs[r].list) |-> reqs[r].list[i].id]

ListAnswered(r) ==
    /\ reqs[r].kind = "list" /\ reqs[r].pc = "done" /\ reqs[r].status = 200
    /\ reqs[r].id \in OrgRefs

\* C23: ticket list ordering.  An answered organization listing holds every
\* ticket of the organization exactly once and nothing else; for
\* sort=mostVoted it is ordered by votes descending, for sort=priority by
\* rank high > medium > low > none, in both cases with ties newest first,
\* and for sort=newest, no sort or an unknown sort newest first.
ListOrdering ==
    \A r \in Slots :
        ListAnswered(r) =>
            LET l == Listed(r)
                tk(i) == tickets[l[i]]
            IN /\ {l[i] : i \in 1..Len(l)} = TicketsOfOrg(reqs[r].id)
               /\ Len(l) = Cardinality(TicketsOfOrg(reqs[r].id))
               /\ \A i, j \in 1..Len(l) :
                     i < j =>
                        CASE reqs[r].sort = "mostVoted" ->
                                 /\ tk(i).votes >= tk(j).votes
                                 /\ tk(i).votes = tk(j).votes
                                       => CreatedAt(l[i]) > CreatedAt(l[j])
                          [] reqs[r].sort = "priority" ->
                                 /\ RanksAtLeast(tk(i).priority, tk(j).priority)
                                 /\ tk(i).priority = tk(j).priority
                                       => CreatedAt(l[i]) > CreatedAt(l[j])
                          [] OTHER -> CreatedAt(l[i]) > CreatedAt(l[j])

\* C23 witness: a listing sorted by priority that answered an older medium
\* ticket before a newer low one.
ListOrderingWitness ==
    \E r \in Slots :
        /\ ListAnswered(r) /\ reqs[r].sort = "priority"
        /\ Len(reqs[r].list) = 2
        /\ tickets[Listed(r)[1]].priority = "medium"
        /\ tickets[Listed(r)[2]].priority = "low"
        /\ CreatedAt(Listed(r)[1]) < CreatedAt(Listed(r)[2])

\* C27: the voted flag of a listing agrees with the ledger.  Every entry of
\* a listing answered to an authenticated caller, in the organization mode
\* and in the submittedByMe mode, carries voted = "a Vote row of the caller
\* for that ticket exists".
ListVotedAgreesWithLedger ==
    \A r \in Slots :
        (/\ reqs[r].kind \in {"list", "listMine"} /\ reqs[r].pc = "done"
         /\ reqs[r].status = 200 /\ reqs[r].user # Anon) =>
            \A i \in 1..Len(reqs[r].list) :
                reqs[r].list[i].voted
                    = (\E v \in votes : /\ v.userId = reqs[r].user
                                        /\ v.ticketId = reqs[r].list[i].id)

(***************************************************************************)
(* The organization detail page (client).  votingTickets is React state:   *)
(* handleVote reads the value captured by the last render, while the       *)
(* updater functions passed to setVotingTickets apply to the latest state. *)
(***************************************************************************)
\* tickets shown on the page
MaxPageTickets == 2
\* calls of handleVote in one behaviour
MaxClicks == 4

InitPage ==
    /\ orgs = <<>>
    /\ tickets = <<>>
    /\ votes = {}
    /\ reqs = [r \in Slots |-> Idle]
    /\ left = MaxClicks
    /\ overlapped = FALSE
    /\ \E st \in {"authenticated", "unauthenticated"} :
          page = [status |-> st, route |-> "org", votingTickets |-> {},
                  rendered |-> {}, fetches |-> [t \in 1..MaxPageTickets |-> 0],
                  error |-> FALSE]

\* if (votingTickets.has(ticketId)) return; the set is the one the handler
\* closed over at the last render (the button's disabled attribute shows the
\* same set)
GuardRejects(t) == t \in page.rendered

\* handleVote(ticketId) up to its fetch
HandleVote(t) ==
    /\ page.route = "org" /\ left > 0
    /\ left' = left - 1
    /\ page' = IF page.status # "authenticated"
               THEN [page EXCEPT !.route = "login"]
               ELSE IF GuardRejects(t) THEN page
                    ELSE [page EXCEPT !.votingTickets = @ \cup {t},
                                      !.fetches[t] = @ + 1]
    /\ UNCHANGED <<orgs, tickets, votes, reqs, overlapped>>

\* React renders the component again: the handlers now close over the
\* latest state
Render ==
    /\ page.route = "org"
    /\ page.rendered # page.votingTickets
    /\ page' = [page EXCEPT !.rendered = page.votingTickets]
    /\ UNCHANGED <<orgs, tickets, votes, reqs, left, overlapped>>

\* a fetch of handleVote settles: with a 2xx response the ticket is updated,
\* otherwise the error is shown; finally the ticket leaves votingTickets
FetchSettles(t, ok) ==
    /\ page.route = "org"
    /\ page.fetches[t] > 0
    /\ page' = [page EXCEPT !.fetches[t] = @ - 1,
                            !.votingTickets = @ \ {t},
                            !.error = IF ok THEN @ ELSE TRUE]
    /\ UNCHANGED <<orgs, tickets, votes, reqs, left, overlapped>>

NextPage ==
    \/ \E t \in 1..MaxPageTickets : HandleVote(t)
    \/ Render
    \/ \E t \in 1..MaxPageTickets, ok \in BOOLEAN : FetchSettles(t, ok)

SpecPage == InitPage /\ [][NextPage]_vars

\* C24: client in-flight guard.  On one page at most one vote request per
\* ticket is outstanding at any time.
SingleVoteInFlight ==
    \A t \in DOMAIN page.fetches : page.fetches[t] <= 1

\* C25: vote referential integrity.  Every Vote row names an existing
\* ticket: deleting a ticket leaves no Vote row for it, and no toggle
\* creates a row for a deleted ticket.
VoteReferentialIntegrity ==
    \A v \in votes : TicketExists(v.ticketId)

(***************************************************************************)
(* Store failures.  Every awaited store call of the vote handler can       *)
(* reject (connection lost, timeout); the rejection reaches the handler's  *)
(* catch block, which answers 500.  Toggles of one ticket arrive one       *)
(* after another on a consistent ledger.                                   *)
(***************************************************************************)
\* catch (error) { return 500 } after an awaited store call rejected
VoteStoreFails(r) ==
    /\ reqs[r].kind = "vote" /\ reqs[r].pc \notin {"idle", "done"}
    /\ reqs' = [reqs EXCEPT ![r] = Respond(r, 500)]
    /\ UNCHANGED <<orgs, tickets, votes, left, overlapped, page>>

InitFaulty ==
    /\ orgs = <<>>
    /\ \E S \in LedgerVoters :
          /\ votes = LedgerRows(S)
          /\ tickets = <<[exists |-> TRUE, reportedBy |-> "u1",
                          organizationId |-> PhantomId, title |-> "t1",
                          votes |-> Cardinality(S), priority |-> "none",
                          status |-> "open", tag |-> "bug",
                          lastTriagedAt |-> Absent, triageStatus |-> Absent]>>
    /\ reqs = [r \in Slots |-> Idle]
    /\ left = MaxRequests
    /\ overlapped = FALSE
    /\ page = NoPage

NextFaulty ==
    \/ \E r \in Slots : Release(r)
    \/ \E r \in Slots, u \in Users, t \in TicketIds : SeqVoteStart(r, u, t)
    \/ VoteSteps
    \/ \E r \in Slots : VoteStoreFails(r)

SpecFaulty == InitFaulty /\ [][NextFaulty]_vars

\* C26: toggle is all-or-nothing on error.  When a ToggleVote request has
\* answered with a server error, the votes counter of every ticket equals
\* the number of its Vote rows: the request has not changed the row and
\* left the counter behind.
ToggleErrorAtomic ==
    \A r \in Slots :
        (reqs[r].kind = "vote" /\ reqs[r].pc = "done" /\ reqs[r].status = 500) =>
            \A t \in TicketIds :
                TicketExists(t) => tickets[t].votes = Cardinality(VotesOf(t))

(***************************************************************************)
(* Bulk triage with two organizations.  u1 owns organization 1 and u2      *)
(* organization 2; MaxBulkTickets tickets are stored, each in one of the   *)
(* two organizations.  Bulk triage requests for both organizations arrive  *)
(* and interleave; the inference output names any of the stored tickets.   *)
(***************************************************************************)
MaxBulkTickets == 2

InitBulk ==
    /\ orgs = <<[createdBy |-> "u1", name |-> <<"A", "b">>, nameLower |-> <<"a", "b">>],
                [createdBy |-> "u2", name |-> <<"b">>, nameLower |-> <<"b">>]>>
    /\ tickets \in [1..MaxBulkTickets ->
                       {[exists |-> TRUE, reportedBy |-> "u1", organizationId |-> o,
                         title |-> "t1", votes |-> 0, priority |-> "none",
                         status |-> "open", tag |-> "bug",
                         lastTriagedAt |-> Absent, triageStatus |-> Absent] :
                            o \in 1..2}]
    /\ votes = {}
    /\ reqs = [r \in Slots |-> Idle]
    /\ left = MaxConc
    /\ overlapped = FALSE
    /\ page = NoPage

NextBulk ==
    \/ \E r \in Slots : Release(r)
    \/ \E r \in Slots, u \in Users, o \in 1..2 : BulkStart(r, u, o)
    \/ \E r \in Slots : BulkFindOrg(r)
    \/ \E r \in Slots : BulkFindTickets(r)
    \/ \E r \in Slots, kind \in BulkAnswerKinds,
             results \in SeqsUpTo(TriageItems, MaxItems) : BulkLlm(r, kind, results)
    \/ \E r \in Slots : BulkWrite(r)

SpecBulk == InitBulk /\ [][NextBulk]_vars

\* C28: bulk triage is confined to its organization.  No step of a bulk
\* triage request for organization O changes a ticket whose organizationId
\* is not O, whatever ids the inference output names.
BulkConfined ==
    [][\A r \in Slots :
          (Acts(r) /\ reqs[r].kind = "bulk") =>
              \A t \in TicketIds :
                  tickets[t].organizationId # reqs[r].id => tickets'[t] = tickets[t]]_vars

\* C28 witness: the inference output of a bulk triage of organization 1
\* named ticket 1 of organization 1 and ticket 2 of organization 2, both
\* with a valid priority and type; ticket 1 was triaged and ticket 2 is as
\* it was.
BulkConfinedWitness ==
    \E r \in Slots :
        /\ reqs[r].kind = "bulk" /\ reqs[r].pc = "done" /\ reqs[r].status = 200
        /\ reqs[r].id = 1 /\ reqs[r].answerIds = {1, 2}
        /\ Len(tickets) >= 2
        /\ tickets[1].organizationId = 1 /\ tickets[2].organizationId = 2
        /\ tickets[1].triageStatus = "triaged"
        /\ tickets[2].triageStatus = Absent /\ tickets[2].priority = "none"

(***************************************************************************)
(* Ownership.  On the store of one organization of u1 with one ticket of   *)
(* u2, every kind of request that updates an organization or a ticket      *)
(* arrives; ticket updates carry reportedBy and organizationId in their    *)
(* body.                                                                   *)
(***************************************************************************)
OwnershipBodies ==
    {[NoBody EXCEPT !.title = "t2", !.reportedBy = "u1"],
     [NoBody EXCEPT !.organizationId = PhantomId],
     [NoBody EXCEPT !.priority = "high"]}

NextOwnership ==
    \/ \E r \in Slots : Release(r)
    \/ \E r \in Slots, u \in Users, t \in TicketIds, body \in OwnershipBodies :
          TicketPatch(r, u, t, body)
    \/ \E r \in Slots, u \in Users, t \in TicketIds : StatusStart(r, u, t, "closed")
    \/ \E r \in Slots, u \in Users, t \in TicketIds : TriageStart(r, u, t)
    \/ \E r \in Slots, u \in Users, o \in OrgIds : BulkStart(r, u, o)
    \/ \E r \in Slots, u \in Users, o \in OrgIds : OrgPatchStart(r, u, o, <<"b">>)
    \/ \E r \in Slots, u \in Users, t \in TicketIds : VoteStart(r, u, t)
    \/ \E r \in Slots : StatusFindTicket(r)
    \/ \E r \in Slots : StatusFindOrg(r)
    \/ \E r \in Slots : StatusSave(r)
    \/ \E r \in Slots : TriageFindTicket(r)
    \/ \E r \in Slots : TriageFindOrg(r)
    \/ \E r \in Slots, answer \in TriageAnswers : TriageLlm(r, answer)
    \/ \E r \in Slots : TriageUpdate(r)
    \/ \E r \in Slots : BulkFindOrg(r)
    \/ \E r \in Slots : BulkFindTickets(r)
    \/ \E r \in Slots, kind \in BulkAnswerKinds,
             results \in SeqsUpTo(TriageItems, MaxItems) : BulkLlm(r, kind, results)
    \/ \E r \in Slots : BulkWrite(r)
    \/ \E r \in Slots : OrgPatchFind(r)
    \/ \E r \in Slots : OrgPatchSave(r)
    \/ VoteSteps

InitOwnership ==
    /\ orgs = <<[createdBy |-> "u1", name |-> <<"A", "b">>, nameLower |-> <<"a", "b">>]>>
    /\ tickets = <<[exists |-> TRUE, reportedBy |-> "u2", organizationId |-> 1,
                    title |-> "t1", votes |-> 0, priority |-> "none",
                    status |-> "open", tag |-> "bug",
                    lastTriagedAt |-> Absent, triageStatus |-> Absent]>>
    /\ votes = {}
    /\ reqs = [r \in Slots |-> Idle]
    /\ left = MaxConc
    /\ overlapped = FALSE
    /\ page = NoPage

SpecOwnership == InitOwnership /\ [][NextOwnership]_vars

\* C29: ownership fields are immutable.  No step changes the createdBy of
\* an organization or the reportedBy or organizationId of a ticket, whatever
\* the body of the request carries.
OwnershipImmutable ==
    [][/\ \A o \in OrgIds :
             o \in DOMAIN orgs' /\ orgs'[o].createdBy = orgs[o].createdBy
       /\ \A t \in TicketIds :
             /\ t \in DOMAIN tickets'
             /\ tickets'[t].reportedBy = tickets[t].reportedBy
             /\ tickets'[t].organizationId = tickets[t].organizationId]_vars

\* C29 witness: the reporter's update carrying a new title and the
\* reportedBy of another user was accepted; the title changed and the
\* ticket has the reporter it had.
OwnershipImmutableWitness ==
    \E r \in Slots :
        /\ reqs[r].kind = "ticketPatch" /\ reqs[r].pc = "done" /\ reqs[r].status = 200
        /\ reqs[r].body.reportedBy = "u1" /\ reqs[r].user = "u2"
        /\ tickets[reqs[r].id].title = "t2"
        /\ tickets[reqs[r].id].reportedBy = "u2"

(***************************************************************************)
(* GET /api/orgs                                                           *)
(***************************************************************************)
\* Math.min(parseInt(limitParam, 10), 20), and the default limit
MaxLimit == 20
\* organizations stored when a search arrives
MaxSearchOrgs == 21

NaN == [nan |-> TRUE, value |-> 0]
Number(n) == [nan |-> FALSE, value |-> n]

IsDigit(c) == c \in {"0", "1", "2", "3", "4", "5", "6", "7", "8", "9"}
DigitValue(c) ==
    CASE c = "0" -> 0 [] c = "1" -> 1 [] c = "2" -> 2 [] c = "3" -> 3
      [] c = "4" -> 4 [] c = "5" -> 5 [] c = "6" -> 6 [] c = "7" -> 7
      [] c = "8" -> 8 [] OTHER -> 9

\* the value of the longest prefix of digits of str, continuing from acc
RECURSIVE DigitsValue(_, _)
DigitsValue(str, acc) ==
    IF str # <<>> /\ IsDigit(Head(str))
    THEN DigitsValue(Tail(str), 10 * acc + DigitValue(Head(str)))
    ELSE acc

\* parseInt(str, 10): leading white space and one sign are skipped, the
\* digits that follow are read, anything after them is ignored; NaN when no
\* digit follows
ParseInt(str) ==
    LET s == TrimStart(str)
        signed == s # <<>> /\ Head(s) \in {"-", "+"}
        digits == IF signed THEN Tail(s) ELSE s
    IN IF digits = <<>> \/ ~IsDigit(Head(digits)) THEN NaN
       ELSE IF signed /\ Head(s) = "-" THEN Number(0 - DigitsValue(digits, 0))
            ELSE Number(DigitsValue(digits, 0))

\* const limit = limitParam ? Math.min(parseInt(limitParam, 10), 20) : 20;
\* a missing and an empty parameter are both falsy
\* (Math.min of NaN is NaN)
SearchLimit(limitParam) ==
    LET parsed == ParseInt(limitParam)
    IN IF limitParam = <<>> THEN Number(MaxLimit)
       ELSE IF parsed.nan THEN NaN
            ELSE IF parsed.value < MaxLimit THEN parsed ELSE Number(MaxLimit)

\* the number of documents .limit(limit) lets through out of n: 0 means no
\* limit, a negative limit means its absolute value
Limited(n, limit) ==
    LET bound == IF limit < 0 THEN 0 - limit ELSE limit
    IN IF limit = 0 \/ n <= bound THEN n ELSE bound

\* Organization.find(filter).limit(limit).sort({ createdAt: -1 }): the ids
\* answered, newest first
FoundOrgs(count) == [i \in 1..count |-> Len(orgs) + 1 - i]

\* the handler's one store call and its answer.  With a NaN limit the store
\* rejects the command, or reads it as no limit
OrgSearch(r, limitParam, onNaN) ==
    /\ CanStart(r)
    /\ left' = left - 1
    /\ LET limit == SearchLimit(limitParam)
           req == [Begin(r, "orgSearch", Anon, PhantomId, "done") EXCEPT
                       !.limit = limitParam]
       IN reqs' = [reqs EXCEPT ![r] =
                     IF limit.nan
                     THEN IF onNaN = "rejected" THEN [req EXCEPT !.status = 500]
                          ELSE [req EXCEPT !.status = 200,
                                           !.list = FoundOrgs(Len(orgs))]
                     ELSE [req EXCEPT !.status = 200,
                                      !.list = FoundOrgs(Limited(Len(orgs), limit.value))]]
    /\ UNCHANGED <<orgs, tickets, votes, overlapped, page>>

InitSearch ==
    /\ \E n \in 0..MaxSearchOrgs :
          orgs = [i \in 1..n |-> [createdBy |-> ToString(i), name |-> <<"b">>,
                                  nameLower |-> <<"b">>]]
    /\ tickets = <<>>
    /\ votes = {}
    /\ reqs = [r \in Slots |-> Idle]
    /\ left = 1
    /\ overlapped = FALSE
    /\ page = NoPage

NextSearch ==
    \/ \E r \in Slots : Release(r)
    \/ \E r \in Slots, onNaN \in {"rejected", "unlimited"},
             limitParam \in {<<>>, <<"0">>, <<"5">>, <<"2", "0">>, <<"2", "1">>,
                             <<"-", "5">>, <<"-", "2", "5">>, <<"a", "b", "c">>,
                             <<" ", "7", "x">>} :
          OrgSearch(r, limitParam, onNaN)

SpecSearch == InitSearch /\ [][NextSearch]_vars

\* C30: organization search is capped.  A search answers at most 20
\* organizations whatever the limit parameter is, and at most 5 for
\* limit=5.
OrgSearchCapped ==
    \A r \in Slots :
        (reqs[r].kind = "orgSearch" /\ reqs[r].pc = "done") =>
            /\ Len(reqs[r].list) <= 20
            /\ reqs[r].limit = <<"5">> => Len(reqs[r].list) <= 5

====
